---------------------------- MODULE Spec2Model ----------------------------
(***************************************************************************)
(* Template composition and rendering engine of grimoire: the resolver of  *)
(* template directories, the layered composer, the visibility pruner and   *)
(* the mustache renderer, modelled from the TypeScript sources.            *)
(*                                                                         *)
(* Texts are sequences of atoms.  An atom is one lexical unit of a         *)
(* template file: "$", the mustache delimiters "{{" and "}}", the section   *)
(* sigils "#", "^" and "/", the key "k", a literal "x", and "T0".."T3",    *)
(* the literal texts __GH_EXPR_0__ .. __GH_EXPR_3__.  Triple mustaches,    *)
(* comments, partials, delimiter changes and white space are outside the   *)
(* modelled syntax.                                                        *)
(***************************************************************************)
EXTENDS Naturals, Sequences, FiniteSets, TLC

VARIABLES
    raw,        \* SpecRender: the text read from the marked file
    data,       \* SpecRender: the value of key "k" in the render data
    rendered,   \* SpecRender: the outcome of rendering raw ("pending" before)
    tree,       \* the target directory: relative path -> [kind, data]
    before,     \* the target directory as it was when the last pass started
    fileNames,  \* SpecPrune: the basenames handed to removeFilesByBasename
    fsLog,      \* file-system calls of the last pass, in order
    pc,         \* position of the run
    composer,   \* which composer the run uses
    public,     \* summonConfig.public
    authorName, \* summonConfig.authorName
    layers,     \* what each coordinate of the layer plan resolves to
    step,       \* index into the layer plan of the layer at hand
    trace,      \* the resolve, copy, prune, license and render calls so far
    composed,   \* the target as the composition left it
    err,        \* the error the run failed with
    registry,   \* SpecResolve: which revision of the template registry runs
    remotePathCache,    \* giget spec -> normalized directory
    remotePathInFlight, \* giget spec -> promise of the running download
    remoteListCache,    \* giget spec -> the names the listing query gave
    promises,   \* the promises downloadRemoteTemplatesSubdir has made
    calls,      \* the resolveTemplatesDir calls issued so far
    netLog,     \* the fetch, mkdtemp and downloadTemplate invocations made
    argv,       \* SpecRun: the argument vector handed to run
    cliPc,      \* SpecRun: position of run
    parseLog,   \* SpecRun: the app.parse calls made, with their outcome
    helpLog,    \* SpecRun: the number of app.outputHelp calls made
    mustacheEscape, \* SpecEscape: the function mustache.escape holds
    renderCalls     \* SpecEscape: the renderMustacheTemplates calls under way

vars == <<raw, data, rendered, tree, before, fileNames, fsLog, pc,
          composer, public, authorName, layers, step, trace, composed, err,
          registry, remotePathCache, remotePathInFlight, remoteListCache, promises,
          calls, netLog, argv, cliPc, parseLog, helpLog, mustacheEscape, renderCalls>>

resolverVars == <<registry, remotePathCache, remotePathInFlight, remoteListCache, promises,
          calls, netLog>>

pipeVars == <<composer, public, authorName, layers, step, trace, composed, err>>

renderVars == <<raw, data, rendered>>
cliVars == <<argv, cliPc, parseLog, helpLog>>
escapeVars == <<mustacheEscape, renderCalls>>
treeVars == <<tree, before, fileNames, fsLog>>

-----------------------------------------------------------------------------
(* Bounds *)

MaxSegs == 3
MaxDepth == 4
MaxEntries == 4
MaxCalls == 2
MaxArgs == 3
MaxRenders == 2
MaxMarked == 2
MaxWalkDepth == 2

-----------------------------------------------------------------------------
(* Generic helpers *)

RECURSIVE Flatten(_)
Flatten(ss) ==
    IF ss = <<>> THEN <<>> ELSE Head(ss) \o Flatten(Tail(ss))

Min(S) == CHOOSE m \in S : \A n \in S : m <= n

\* TRUE iff sub occurs in t as a contiguous subsequence.
Contains(t, sub) ==
    \E i \in 1..(Len(t) + 1) :
        /\ i + Len(sub) - 1 <= Len(t)
        /\ \A j \in 1..Len(sub) : t[i + j - 1] = sub[j]

-----------------------------------------------------------------------------
(* renderMustacheTemplates: the per-file text pass *)

\* `__GH_EXPR_${n}__`
GhToken(n) == <<"T0", "T1", "T2", "T3">>[n + 1]

\* Positions j >= from of the first "}}" at or after from.
ClosersFrom(t, from) == {j \in from..Len(t) : t[j] = "}}"}

\* raw.replaceAll(/\$\{\{[\s\S]*?\}\}/g, m => { push m; return token })
RECURSIVE MaskFrom(_, _, _, _)
MaskFrom(t, i, acc, exprs) ==
    IF i > Len(t) THEN [masked |-> acc, ghExprs |-> exprs]
    ELSE IF /\ t[i] = "$"
            /\ i + 1 <= Len(t)
            /\ t[i + 1] = "{{"
            /\ ClosersFrom(t, i + 2) # {}
         THEN LET j == Min(ClosersFrom(t, i + 2))
              IN  MaskFrom(t, j + 1, Append(acc, GhToken(Len(exprs))),
                           Append(exprs, SubSeq(t, i, j)))
         ELSE MaskFrom(t, i + 1, Append(acc, t[i]), exprs)

Mask(t) == MaskFrom(t, 1, <<>>, <<>>)

\* mustache's scanner: text up to "{{", then a tag up to the next "}}".
\* A tag with no closing "}}" is mustache's "Unclosed tag" error.
RECURSIVE ParseFrom(_, _, _)
ParseFrom(t, i, toks) ==
    IF i > Len(t) THEN [ok |-> TRUE, tokens |-> toks]
    ELSE IF t[i] # "{{"
         THEN ParseFrom(t, i + 1, Append(toks, [type |-> "text", value |-> <<t[i]>>]))
         ELSE IF ClosersFrom(t, i + 1) = {}
              THEN [ok |-> FALSE, tokens |-> toks]
              ELSE LET j == Min(ClosersFrom(t, i + 1))
                       typed == t[i + 1] \in {"#", "^", "/"}
                       tok == [type  |-> IF typed THEN t[i + 1] ELSE "name",
                               value |-> SubSeq(t, IF typed THEN i + 2 ELSE i + 1, j - 1)]
                   IN  ParseFrom(t, j + 1, Append(toks, tok))

\* mustache's section stack: "Unopened section" and "Unclosed section" errors.
RECURSIVE Nested(_, _)
Nested(toks, stack) ==
    IF toks = <<>> THEN stack = <<>>
    ELSE LET tok == Head(toks) IN
         CASE tok.type \in {"#", "^"} -> Nested(Tail(toks), <<tok.value>> \o stack)
           [] tok.type = "/" ->
                /\ stack # <<>>
                /\ Head(stack) = tok.value
                /\ Nested(Tail(toks), Tail(stack))
           [] OTHER -> Nested(Tail(toks), stack)

\* context.lookup(name): the data holds the one key "k".
Lookup(name, d) == IF name = <<"k">> THEN d ELSE "absent"

\* A test that takes only a missing key for falsy.
FalsyOnlyAbsent(v) == v = "absent"

\* mustache's `if (!value)`: JavaScript falsiness of the looked-up value.
Falsy(v) == v \in {"absent", "false", "empty", "zero", "nan"}

\* `buffer += value` with escaping disabled.
ToText(v) ==
    CASE v = "absent" -> <<>>
      [] v = "empty"  -> <<>>
      [] v = "str"    -> <<"v">>
      [] v = "true"   -> <<"true">>
      [] v = "false"  -> <<"false">>
      [] v = "zero"   -> <<"0">>
      [] v = "nan"    -> <<"NaN">>
      [] v = "num"    -> <<"7">>

\* Writer.renderTokens for scalar values: a section body is emitted once or
\* not at all.  active is the stack of the enclosing sections' decisions.
RECURSIVE RenderTokens(_, _, _, _)
RenderTokens(toks, d, active, buf) ==
    IF toks = <<>> THEN buf
    ELSE LET tok == Head(toks)
             on == \A n \in 1..Len(active) : active[n]
         IN  CASE tok.type = "text" ->
                    RenderTokens(Tail(toks), d, active,
                                 IF on THEN buf \o tok.value ELSE buf)
               [] tok.type = "name" ->
                    RenderTokens(Tail(toks), d, active,
                                 IF on THEN buf \o ToText(Lookup(tok.value, d)) ELSE buf)
               [] tok.type = "#" ->
                    RenderTokens(Tail(toks), d,
                                 <<~Falsy(Lookup(tok.value, d))>> \o active, buf)
               [] tok.type = "^" ->
                    RenderTokens(Tail(toks), d,
                                 <<Falsy(Lookup(tok.value, d))>> \o active, buf)
               [] tok.type = "/" ->
                    RenderTokens(Tail(toks), d, Tail(active), buf)

\* mustache.render(masked, data)
MustacheRender(t, d) ==
    LET p == ParseFrom(t, 1, <<>>) IN
    IF p.ok /\ Nested(p.tokens, <<>>)
    THEN [ok |-> TRUE, out |-> RenderTokens(p.tokens, d, <<>>, <<>>)]
    ELSE [ok |-> FALSE, out |-> <<>>]

\* rendered.split(token).join(expr)
RECURSIVE SplitJoin(_, _, _)
SplitJoin(t, token, expr) ==
    IF t = <<>> THEN <<>>
    ELSE (IF Head(t) = token THEN expr ELSE <<Head(t)>>)
         \o SplitJoin(Tail(t), token, expr)

\* ghExprs.forEach((expr, i) => rendered = rendered.split(token_i).join(expr))
RECURSIVE RestoreFrom(_, _, _)
RestoreFrom(t, exprs, i) ==
    IF i > Len(exprs) THEN t
    ELSE RestoreFrom(SplitJoin(t, GhToken(i - 1), exprs[i]), exprs, i + 1)

Restore(t, exprs) == RestoreFrom(t, exprs, 1)

\* The text pass on one marked file: mask, render, restore.
RenderText(t, d) ==
    LET m == Mask(t)
        r == MustacheRender(m.masked, d)
    IN  IF r.ok THEN [ok |-> TRUE, out |-> Restore(r.out, m.ghExprs)]
        ELSE [ok |-> FALSE, out |-> <<>>]

-----------------------------------------------------------------------------
(* The file system: a directory tree is a function from relative paths    *)
(* (sequences of names) to nodes.  A name is the sequence of its           *)
(* dot-separated components: README.mustache.md is                         *)
(* <<"README", "mustache", "md">>.  The root <<>> is not an entry.         *)

DirNode == [kind |-> "dir", data |-> <<>>]
FileNode(text) == [kind |-> "file", data |-> text]

EmptyTree == [p \in {} |-> DirNode]

Basename(p) == p[Len(p)]
Dirname(p) == SubSeq(p, 1, Len(p) - 1)
IsPrefix(d, p) == Len(d) <= Len(p) /\ SubSeq(p, 1, Len(d)) = d

Exists(t, p) == p = <<>> \/ p \in DOMAIN t
IsDir(t, p) == p = <<>> \/ (p \in DOMAIN t /\ t[p].kind = "dir")
IsFile(t, p) == p \in DOMAIN t /\ t[p].kind = "file"

Put(t, p, node) == [q \in DOMAIN t \cup {p} |-> IF q = p THEN node ELSE t[q]]

\* fs.promises.rm(p, {recursive: true, force: true})
RmTree(t, p) == [q \in {r \in DOMAIN t : ~IsPrefix(p, r)} |-> t[q]]

\* Every name a tree of the model may hold, in the order readdir lists them.
AllNames ==
    << <<"CONTRIBUTING", "md">>,
       <<"CONTRIBUTING", "mustache", "md">>,
       <<"LICENSE">>,
       <<"README", "MUSTACHE", "md">>,
       <<"README", "md">>,
       <<"README", "mustache", "md">>,
       <<"README", "mustache", "mustache", "md">>,
       <<"bug", "md">>,
       <<"ci", "MUSTACHE", "yml">>,
       <<"ci", "yml">>,
       <<"github">>,
       <<"index", "ts">>,
       <<"issue_template">>,
       <<"release", "config", "cjs">>,
       <<"src">> >>

\* fs.promises.readdir(dir, {withFileTypes: true}): the names, listed in order.
Readdir(t, dir) ==
    SelectSeq(AllNames, LAMBDA n : Append(dir, n) \in DOMAIN t)

-----------------------------------------------------------------------------
(* removeFilesByBasename / removeMatchingFilesRecursively *)

\* (name) => set.has(name)
Predicate(name, names) == name \in names

\* A prune that looks at the entries of rootDir only.
RemoveTopLevelOnly(st, rootDir, names) ==
    [tree |-> [q \in {r \in DOMAIN st.tree :
                          ~(IsPrefix(rootDir, r) /\ Len(r) > Len(rootDir)
                               /\ r[Len(rootDir) + 1] \in names)} |-> st.tree[q]],
     log  |-> Append(st.log, <<"readdir", rootDir>>)]

\* One pass over the pre-read entries of dir.  st is [tree, log]; the log
\* records each readdir and each rm call.
RECURSIVE PruneEntries(_, _, _, _)
RECURSIVE RemoveMatching(_, _, _)

\* A pass that walks a matching directory before it removes it.
RECURSIVE PruneEntriesDescending(_, _, _, _)
PruneEntriesDescending(st, dir, entries, names) ==
    IF entries = <<>> THEN st
    ELSE LET name == Head(entries)
             full == Append(dir, name)
             walked == IF st.tree[full].kind = "dir"
                       THEN RemoveMatching(st, full, names) ELSE st
             next == IF Predicate(name, names) /\ full \in DOMAIN walked.tree
                     THEN [tree |-> RmTree(walked.tree, full),
                           log  |-> Append(walked.log, <<"rm", full>>)]
                     ELSE walked
         IN  PruneEntriesDescending(next, dir, Tail(entries), names)

PruneEntries(st, dir, entries, names) ==
    IF entries = <<>> THEN st
    ELSE LET name == Head(entries)
             full == Append(dir, name)
             \* the Dirent was read before any removal
             isDirectory == st.tree[full].kind = "dir"
             next ==
                 IF isDirectory
                 THEN IF Predicate(name, names)
                      THEN [tree |-> RmTree(st.tree, full),
                            log  |-> Append(st.log, <<"rm", full>>)]
                      ELSE RemoveMatching(st, full, names)
                 ELSE IF Predicate(name, names)
                      THEN [tree |-> RmTree(st.tree, full),
                            log  |-> Append(st.log, <<"rm", full>>)]
                      ELSE st
         IN  PruneEntries(next, dir, Tail(entries), names)

RemoveMatching(st, rootDir, names) ==
    IF ~IsDir(st.tree, rootDir) THEN st       \* readdir throws: return
    ELSE PruneEntries([tree |-> st.tree,
                       log  |-> Append(st.log, <<"readdir", rootDir>>)],
                      rootDir, Readdir(st.tree, rootDir), names)

removeFilesByBasename(t, names) ==
    RemoveMatching([tree |-> t, log |-> <<>>], <<>>, names)

-----------------------------------------------------------------------------
(* copyDirSafeAsync / copyFileSafeAsync / ensureDirAsync / writeFileAsync *)

\* fs.promises.mkdir(dir, {recursive: true}): fails when dir, or one of its
\* ancestors, exists as a regular file.
RECURSIVE EnsureDirFrom(_, _, _)
EnsureDirFrom(t, dir, n) ==
    IF n > Len(dir) THEN [tree |-> t, ok |-> TRUE]
    ELSE LET d == SubSeq(dir, 1, n) IN
         IF IsFile(t, d) THEN [tree |-> t, ok |-> FALSE]
         ELSE EnsureDirFrom(IF d \in DOMAIN t THEN t ELSE Put(t, d, DirNode), dir, n + 1)

\* A directory made anew: what was beneath it is removed.
EmptiedDir(t, dir) ==
    LET e == EnsureDirFrom(t, dir, 1)
        kept == {q \in DOMAIN e.tree : ~(IsPrefix(dir, q) /\ q # dir)}
    IN  IF e.ok THEN [tree |-> [q \in kept |-> e.tree[q]], ok |-> TRUE] ELSE e

ensureDirAsync(t, dir) == EnsureDirFrom(t, dir, 1)

\* fs.promises.writeFile(p, text): fails when p is a directory.
WriteFile(t, p, text) ==
    IF IsDir(t, p) THEN [tree |-> t, ok |-> FALSE]
    ELSE [tree |-> Put(t, p, FileNode(text)), ok |-> TRUE]

writeFileAsync(t, p, text) ==
    LET e == ensureDirAsync(t, Dirname(p)) IN
    IF e.ok THEN WriteFile(e.tree, p, text) ELSE e

\* A copy that leaves a file that is already at the destination alone.
copyFileKeepExisting(st, src, srcPath, destPath) ==
    IF ~IsFile(src, srcPath) \/ IsFile(st.tree, destPath) THEN st
    ELSE LET e == ensureDirAsync(st.tree, Dirname(destPath)) IN
         IF e.ok THEN WriteFile(e.tree, destPath, src[srcPath].data) ELSE e

\* st is [tree, ok]: the target so far and whether no call has thrown.
copyFileSafeAsync(st, src, srcPath, destPath) ==
    IF ~IsFile(src, srcPath) THEN st
    ELSE LET e == ensureDirAsync(st.tree, Dirname(destPath)) IN
         IF e.ok THEN WriteFile(e.tree, destPath, src[srcPath].data) ELSE e

RECURSIVE CopyEntries(_, _, _, _, _)
RECURSIVE copyDirSafeAsync(_, _, _, _)

CopyEntries(st, src, srcDir, destDir, entries) ==
    IF entries = <<>> \/ ~st.ok THEN st
    ELSE LET name == Head(entries)
             srcPath == Append(srcDir, name)
             destPath == Append(destDir, name)
             next == IF src[srcPath].kind = "dir"
                     THEN copyDirSafeAsync(st, src, srcPath, destPath)
                     ELSE copyFileSafeAsync(st, src, srcPath, destPath)
         IN  CopyEntries(next, src, srcDir, destDir, Tail(entries))

\* A copy of the files directly in srcDir, without its sub-directories.
CopyFilesOnly(st, src, srcDir, destDir) ==
    LET files == {Append(destDir, Basename(q)) :
                     q \in {r \in DOMAIN src : Dirname(r) = srcDir /\ IsFile(src, r)}}
    IN  [tree |-> [q \in DOMAIN st.tree \cup files |->
                      IF q \in files THEN FileNode(src[Append(srcDir, Basename(q))].data)
                      ELSE st.tree[q]],
         ok   |-> st.ok]

copyDirSafeAsync(st, src, srcDir, destDir) ==
    IF ~IsDir(src, srcDir) THEN st
    ELSE LET e == ensureDirAsync(st.tree, destDir) IN
         IF e.ok THEN CopyEntries(e, src, srcDir, destDir, Readdir(src, srcDir))
         ELSE e

-----------------------------------------------------------------------------
(* renderMustacheTemplates: the walk over the target directory *)

Lower(c) == IF c \in {"MUSTACHE", "Mustache"} THEN "mustache" ELSE c

\* The components of a name that the marker ".mustache." (any case) matches.
MarkerAt(name) == {i \in 2..(Len(name) - 1) : Lower(name[i]) = "mustache"}

\* A marker test without the `i` flag.
IsMarkedCaseSensitive(name) == \E i \in 2..(Len(name) - 1) : name[i] = "mustache"

\* /\.mustache\./i.test(entry.name)
IsMarked(name) == MarkerAt(name) # {}

\* A replace with the `g` flag: every match is removed.
DemarkGlobal(name) ==
    LET plain(c) == Lower(c) # "mustache"
    IN  <<Head(name)>> \o SelectSeq(SubSeq(name, 2, Len(name) - 1), plain) \o <<name[Len(name)]>>

\* entry.name.replace(/\.mustache\./i, "."): the first match is removed.
Demark(name) ==
    LET i == Min(MarkerAt(name))
    IN  SubSeq(name, 1, i - 1) \o SubSeq(name, i + 1, Len(name))

\* st is [tree, ok, log]; the log lists the files rendered, in order.
RECURSIVE RenderEntries(_, _, _, _)
RECURSIVE renderMustacheTemplates(_, _, _)

\* A walk that goes on to the next entry after a file failed.
RECURSIVE RenderEntriesKeepGoing(_, _, _, _)
RenderEntriesKeepGoing(st, dir, entries, d) ==
    IF entries = <<>> THEN st
    ELSE LET name == Head(entries)
             full == Append(dir, name)
             next ==
                 IF st.tree[full].kind = "dir"
                 THEN renderMustacheTemplates(st, full, d)
                 ELSE IF IsMarked(name)
                      THEN LET r == RenderText(st.tree[full].data, d)
                               w == WriteFile(st.tree, Append(dir, Demark(name)), r.out)
                           IN  IF r.ok /\ w.ok
                               THEN [tree |-> RmTree(w.tree, full), ok |-> st.ok,
                                     log  |-> Append(st.log, full)]
                               ELSE [tree |-> st.tree, ok |-> FALSE, log |-> st.log]
                      ELSE st
         IN  RenderEntriesKeepGoing(next, dir, Tail(entries), d)

RenderEntries(st, dir, entries, d) ==
    IF entries = <<>> \/ ~st.ok THEN st
    ELSE LET name == Head(entries)
             full == Append(dir, name)
             next ==
                 IF st.tree[full].kind = "dir"
                 THEN renderMustacheTemplates(st, full, d)
                 ELSE IF IsMarked(name)
                      THEN LET r == RenderText(st.tree[full].data, d)
                               w == WriteFile(st.tree, Append(dir, Demark(name)), r.out)
                           IN  IF r.ok /\ w.ok
                               THEN [tree |-> RmTree(w.tree, full), ok |-> TRUE,
                                     log  |-> Append(st.log, full)]
                               ELSE [tree |-> st.tree, ok |-> FALSE, log |-> st.log]
                      ELSE st
         IN  RenderEntries(next, dir, Tail(entries), d)

renderMustacheTemplates(st, targetDir, d) ==
    IF ~IsDir(st.tree, targetDir) THEN st     \* readdir throws: return
    ELSE RenderEntries(st, targetDir, Readdir(st.tree, targetDir), d)

-----------------------------------------------------------------------------
(* The generation run: writePackageTemplateFiles / writeStarterTemplate,   *)
(* then applyTemplateModifications                                         *)

\* A plan that applies the language layer ahead of the global one.
LanguageFirstPlan == <<"language-shared", "global-shared", "resource-shared", "chosen-template">>

\* The coordinates of the layer plan, in the order the composer applies them:
\* templates/shared, templates/<lang>/shared, templates/<lang>/package/shared,
\* templates/<lang>/package/<template>.
LayerPlan == <<"global-shared", "language-shared", "resource-shared", "chosen-template">>

NumLayers == Len(LayerPlan)

\* templatePublicPaths.shared and templatePublicPaths.typescript
templatePublicPaths ==
    { <<"CODE_OF_CONDUCT", "md">>, <<"CONTRIBUTING", "md">>, <<"issue_template">>,
      <<"pull_request_template", "md">>, <<"release", "config", "cjs">> }

\* The visibility test without its negation.
PruneWhenPublic(isPublic) == isPublic

\* `if (!summonConfig.public)`
ShouldPrune(isPublic) == ~isPublic

\* A license step without its test of the author name.
LicenseAlways(author) == TRUE

\* `if (summonConfig.authorName)`
ShouldLicense(author) == author # "absent"

\* mitLicense.licenseText with the year and the author substituted
LicenseText == <<"MIT", "year", "author">>

\* templateMetadata: the key "k" of the templates is summonConfig.public.
TemplateMetadata(isPublic) == IF isPublic THEN "true" ELSE "false"

\* A composer whose chosen-template layer sits in a try/catch block as well.
TolerantAll(comp, n) == comp = "writeStarterTemplate"

\* The three optional layers of writeStarterTemplate sit in try/catch blocks.
Tolerant(comp, n) == comp = "writeStarterTemplate" /\ n < NumLayers

\* A run that renders the composed tree before it prunes it.
RenderBeforePrune(comp, phase) ==
    CASE phase = "compose" -> IF comp = "writePackageTemplateFiles" THEN "render" ELSE "done"
      [] phase = "render"  -> "prune"
      [] phase = "prune"   -> "license"
      [] phase = "license" -> "done"

\* What follows each phase of the run.
NextPhase(comp, phase) ==
    CASE phase = "compose" -> IF comp = "writePackageTemplateFiles" THEN "prune" ELSE "done"
      [] phase = "prune"   -> "license"
      [] phase = "license" -> "render"
      [] phase = "render"  -> "done"

Event(op, n, ok) == [op |-> op, layer |-> n, ok |-> ok]

\* What promptAuthorName may give: nothing, or a name.
AuthorAnswers == {"absent", "name"}

\* getSummonPackageConfiguration: the author is asked for only `if (isPublic)`.
getSummonPackageConfiguration(isPublic, answer) ==
    [public |-> isPublic, authorName |-> IF isPublic THEN answer ELSE "absent"]

NoErr == [kind |-> "none", layer |-> 0]

\* What each coordinate may hold in the template source.
Found(t) == [found |-> TRUE, tree |-> t]
NotFound == [found |-> FALSE, tree |-> EmptyTree]

GlobalShared ==
    { NotFound,
      Found((<< <<"CONTRIBUTING", "md">> >> :> FileNode(<<"L1">>))
         @@ (<< <<"index", "ts">> >> :> FileNode(<<"L1">>))
         @@ (<< <<"github">> >> :> DirNode)
         @@ (<< <<"github">>, <<"issue_template">> >> :> DirNode)
         @@ (<< <<"github">>, <<"issue_template">>, <<"bug", "md">> >> :> FileNode(<<"L1">>))),
      Found((<< <<"CONTRIBUTING", "mustache", "md">> >> :> FileNode(<<"x", "{{", "k", "}}">>))
         @@ (<< <<"README", "md">> >> :> FileNode(<<"L1">>))),
      Found(<< <<"CONTRIBUTING", "md">> >> :> FileNode(<<"L1">>)) }

LanguageShared ==
    { NotFound,
      Found((<< <<"index", "ts">> >> :> FileNode(<<"L2">>))
         @@ (<< <<"README", "mustache", "md">> >> :>
                FileNode(<<"{{", "#", "k", "}}", "x", "{{", "/", "k", "}}", "$", "{{", "x", "}}">>))),
      Found((<< <<"github">> >> :> FileNode(<<"L2">>))
         @@ (<< <<"index", "ts">> >> :> FileNode(<<"L2">>))),
      Found((<< <<"README", "md">> >> :> FileNode(<<"L2">>))
         @@ (<< <<"bug", "md">> >> :> FileNode(<<"L2">>))),
      Found(EmptyTree) }

ResourceShared ==
    { NotFound,
      Found((<< <<"index", "ts">> >> :> FileNode(<<"L3">>))
         @@ (<< <<"release", "config", "cjs">> >> :> FileNode(<<"L3">>))
         @@ (<< <<"README", "md">> >> :> FileNode(<<"L3">>))),
      Found((<< <<"github">> >> :> DirNode)
         @@ (<< <<"github">>, <<"ci", "MUSTACHE", "yml">> >> :>
                FileNode(<<"$", "{{", "x", "}}", "{{", "k", "}}">>))
         @@ (<< <<"README", "md">> >> :> FileNode(<<"L3">>))),
      Found(<< <<"release", "config", "cjs">> >> :> FileNode(<<"L3">>)),
      Found(EmptyTree) }

ChosenTemplate ==
    { NotFound,
      Found((<< <<"index", "ts">> >> :> FileNode(<<"L4">>))
         @@ (<< <<"src">> >> :> DirNode)
         @@ (<< <<"src">>, <<"index", "ts">> >> :> FileNode(<<"L4">>))),
      Found((<< <<"README", "md">> >> :> FileNode(<<"L4">>))
         @@ (<< <<"src">> >> :> DirNode)
         @@ (<< <<"src">>, <<"CONTRIBUTING", "md">> >> :> FileNode(<<"L4">>))),
      Found((<< <<"README", "mustache", "md">> >> :> FileNode(<<"x", "$", "{{", "x">>))
         @@ (<< <<"index", "ts">> >> :> FileNode(<<"L4">>))),
      Found((<< <<"README", "md">> >> :> FileNode(<<"L4">>))
         @@ (<< <<"ci", "yml">> >> :> FileNode(<<"L4">>))),
      Found(EmptyTree) }

Coordinates == {"global-shared", "language-shared", "resource-shared", "chosen-template"}

LayerChoices(c) ==
    CASE c = "global-shared"   -> GlobalShared
      [] c = "language-shared" -> LanguageShared
      [] c = "resource-shared" -> ResourceShared
      [] c = "chosen-template" -> ChosenTemplate

TreeIdle ==
    /\ tree = EmptyTree
    /\ before = EmptyTree
    /\ fileNames = {}
    /\ fsLog = <<>>

RenderIdle ==
    /\ raw = <<>>
    /\ data = "absent"
    /\ rendered = [st |-> "pending", out |-> <<>>]

EmptyMap == [k \in {} |-> 0]

ResolverIdle ==
    /\ registry = "none"
    /\ remotePathCache = EmptyMap
    /\ remotePathInFlight = EmptyMap
    /\ remoteListCache = EmptyMap
    /\ promises = <<>>
    /\ calls = <<>>
    /\ netLog = {}

CliIdle ==
    /\ argv = <<>>
    /\ cliPc = "none"
    /\ parseLog = <<>>
    /\ helpLog = 0

escapeFrame == <<cliVars, treeVars, renderVars, pipeVars, pc, resolverVars>>

EscapeIdle ==
    /\ mustacheEscape = "original"
    /\ renderCalls = <<>>

PipeIdle ==
    /\ composer = "none"
    /\ public = FALSE
    /\ authorName = "absent"
    /\ layers = [c \in Coordinates |-> NotFound]
    /\ step = 0
    /\ trace = <<>>
    /\ composed = EmptyTree
    /\ err = NoErr

Init ==
    /\ composer \in {"writePackageTemplateFiles", "writeStarterTemplate"}
    /\ \E isPublic \in BOOLEAN, answer \in AuthorAnswers :
          LET summonConfig == getSummonPackageConfiguration(isPublic, answer)
          IN  /\ public = summonConfig.public
              /\ authorName = summonConfig.authorName
    /\ layers \in [Coordinates -> UNION {LayerChoices(c) : c \in Coordinates}]
    /\ \A c \in Coordinates : layers[c] \in LayerChoices(c)
    /\ step = 1
    /\ trace = <<>>
    /\ composed = EmptyTree
    /\ err = NoErr
    /\ TreeIdle
    /\ CliIdle
    /\ EscapeIdle
    /\ RenderIdle
    /\ ResolverIdle
    /\ pc = "resolve"

\* The end of one layer's try block or statement pair: on to the next layer,
\* or out of the composition.
Advance(t) ==
    IF step < NumLayers
    THEN /\ step' = step + 1
         /\ pc' = "resolve"
         /\ composed' = composed
    ELSE /\ step' = step
         /\ pc' = NextPhase(composer, "compose")
         /\ composed' = t

Fail(kind) ==
    /\ pc' = "failed"
    /\ err' = [kind |-> kind, layer |-> step]

\* `await resolveTemplatesDir(...)` for the layer at hand.
ResolveLayer ==
    /\ pc = "resolve"
    /\ LET c == LayerPlan[step] IN
       /\ trace' = Append(trace, Event("resolve", c, layers[c].found))
       /\ IF layers[c].found
          THEN /\ pc' = "copy"
               /\ UNCHANGED <<step, composed, err>>
          ELSE IF Tolerant(composer, step)
               THEN Advance(tree) /\ UNCHANGED err
               ELSE Fail("NotFound") /\ UNCHANGED <<step, composed>>
    /\ UNCHANGED <<composer, public, authorName, layers, treeVars, renderVars, resolverVars, cliVars, escapeVars>>

\* `await copyDirSafeAsync(dir, targetDir)` for the layer at hand.
CopyLayer ==
    /\ pc = "copy"
    /\ LET c == LayerPlan[step]
           r == copyDirSafeAsync([tree |-> tree, ok |-> TRUE], layers[c].tree, <<>>, <<>>)
       IN  /\ tree' = r.tree
           /\ trace' = Append(trace, Event("copy", c, r.ok))
           /\ IF r.ok \/ Tolerant(composer, step)
              THEN Advance(r.tree) /\ UNCHANGED err
              ELSE Fail("copy") /\ UNCHANGED <<step, composed>>
    /\ UNCHANGED <<composer, public, authorName, layers, before, fileNames, fsLog, renderVars, resolverVars, cliVars, escapeVars>>

\* Remove public files from the target if a private package is requested.
PruneStep ==
    /\ pc = "prune"
    /\ IF ShouldPrune(public)
       THEN LET r == removeFilesByBasename(tree, templatePublicPaths)
            IN  /\ tree' = r.tree
                /\ fsLog' = r.log
                /\ before' = tree
                /\ fileNames' = templatePublicPaths
                /\ trace' = Append(trace, Event("prune", "target", TRUE))
       ELSE UNCHANGED <<tree, fsLog, before, fileNames, trace>>
    /\ pc' = NextPhase(composer, "prune")
    /\ UNCHANGED <<composer, public, authorName, layers, step, composed, err, renderVars, resolverVars, cliVars, escapeVars>>

\* Add the MIT license; writePackageTemplateFiles returns after it.
LicenseStep ==
    /\ pc = "license"
    /\ IF ShouldLicense(authorName)
       THEN LET w == writeFileAsync(tree, << <<"LICENSE">> >>, LicenseText)
            IN  /\ tree' = w.tree
                /\ trace' = Append(trace, Event("license", "target", w.ok))
                /\ IF w.ok
                   THEN pc' = NextPhase(composer, "license") /\ UNCHANGED err
                   ELSE Fail("write")
       ELSE /\ pc' = NextPhase(composer, "license")
            /\ UNCHANGED <<tree, trace, err>>
    /\ UNCHANGED <<composer, public, authorName, layers, step, composed, before,
                   fileNames, fsLog, renderVars, resolverVars, cliVars, escapeVars>>

\* applyTemplateModifications: the next task of runSummonPackage.
RenderStep ==
    /\ pc = "render"
    /\ LET r == renderMustacheTemplates([tree |-> tree, ok |-> TRUE, log |-> <<>>],
                                        <<>>, TemplateMetadata(public))
       IN  /\ tree' = r.tree
           /\ fsLog' = r.log
           /\ before' = tree
           /\ trace' = Append(trace, Event("render", "target", r.ok))
           /\ IF r.ok
              THEN pc' = NextPhase(composer, "render") /\ UNCHANGED err
              ELSE Fail("render")
    /\ UNCHANGED <<composer, public, authorName, layers, step, composed, fileNames, renderVars, resolverVars, cliVars, escapeVars>>

Next == ResolveLayer \/ CopyLayer \/ PruneStep \/ LicenseStep \/ RenderStep

Spec == Init /\ [][Next]_vars

-----------------------------------------------------------------------------
(* Properties of the generation run *)

\* The precedence the layer plan gives each coordinate (ascending).
Precedence(c) ==
    CASE c = "global-shared"   -> 1
      [] c = "language-shared" -> 2
      [] c = "resource-shared" -> 3
      [] c = "chosen-template" -> 4

TraceIdx == 1..Len(trace)

Called(op) == \E i \in TraceIdx : trace[i].op = op

\* The composition ran to its end: the copy of the top layer returned.
ComposeDone == \E i \in TraceIdx : trace[i] = Event("copy", "chosen-template", TRUE)

AllCopiesOk == \A i \in TraceIdx : trace[i].op = "copy" => trace[i].ok

Provides(c, p) == layers[c].found /\ IsFile(layers[c].tree, p)

C3_PhasesOrdered ==
    \A i \in TraceIdx :
        /\ trace[i].op = "prune" =>
              /\ \E j \in 1..(i - 1) : trace[j] = Event("copy", "chosen-template", TRUE)
              /\ \A j \in TraceIdx : trace[j].op \in {"resolve", "copy"} => j < i
        /\ trace[i].op = "render" =>
              /\ \A j \in TraceIdx : trace[j].op \in {"resolve", "copy", "prune"} => j < i
              /\ \E j \in 1..(i - 1) : trace[j] = Event("copy", "chosen-template", TRUE)
              /\ ~public => \E j \in 1..(i - 1) : trace[j].op = "prune"

\* A private run went through composition, pruning and rendering.
C3_Witness ==
    /\ pc = "done"
    /\ Called("copy") /\ Called("prune") /\ Called("render")

\* C4 as stated: an optional layer that resolves to NotFound is a no-op and
\* raises nothing.
C4_MissingLayerTolerated ==
    \A n \in 1..(NumLayers - 1) :
        ~layers[LayerPlan[n]].found
            => ~(pc = "failed" /\ err = [kind |-> "NotFound", layer |-> n])

\* The position of a resolve or copy call in the fixed order
\* resolve 1, copy 1, resolve 2, copy 2, ...
Slot(e) == 2 * Precedence(e.layer) + (IF e.op = "copy" THEN 1 ELSE 0)

\* C5: the layers are resolved and copied one at a time in the order
\* global-shared, language-shared, resource-shared, chosen-template: the copy
\* of a layer precedes the resolution and the copy of every later layer.
C5_LayersInOrder ==
    \A i \in TraceIdx : \A j \in TraceIdx :
        ( /\ i < j
          /\ trace[i].op \in {"resolve", "copy"}
          /\ trace[j].op \in {"resolve", "copy"} )
        => Slot(trace[i]) < Slot(trace[j])

\* All four layers were copied.
C5_Witness ==
    /\ ComposeDone
    /\ \A c \in Coordinates : \E i \in TraceIdx : trace[i] = Event("copy", c, TRUE)

HasMarkerInfix(name) ==
    \E i \in 2..(Len(name) - 1) : name[i] \in {"mustache", "MUSTACHE", "Mustache"}

RenderReturned == pc = "done" /\ Called("render")

RenderEnded == Called("render") /\ pc \in {"done", "failed"}

Rendered(p) == \E i \in 1..Len(fsLog) : fsLog[i] = p

\* Where the marked files of a tree are written to.
Destinations(t) ==
    {Append(Dirname(q), Demark(Basename(q))) : q \in {r \in DOMAIN t : IsFile(t, r) /\ HasMarkerInfix(Basename(r))}}

SameFile(p) ==
    /\ IsFile(before, p) <=> IsFile(tree, p)
    /\ IsFile(before, p) => tree[p] = before[p]

\* C9 as stated: a regular file is rendered iff its name holds the marker, and
\* every file whose name does not hold it exists and reads after render as before.
C9_OnlyMarkedTouched ==
    /\ RenderReturned =>
          \A p \in DOMAIN before :
              IsFile(before, p) => (Rendered(p) <=> HasMarkerInfix(Basename(p)))
    /\ RenderEnded =>
          \A p \in DOMAIN before \cup DOMAIN tree :
              ~HasMarkerInfix(Basename(p)) => SameFile(p)

\* C9 amended: as stated, except for the destinations of the marked files,
\* which render creates or overwrites.
C9_OnlyMarkedAndDestinationsTouched ==
    /\ RenderReturned =>
          \A p \in DOMAIN before :
              IsFile(before, p) => (Rendered(p) <=> HasMarkerInfix(Basename(p)))
    /\ RenderEnded =>
          \A p \in DOMAIN before \cup DOMAIN tree :
              (~HasMarkerInfix(Basename(p)) /\ p \notin Destinations(before)) => SameFile(p)

\* A render that rewrote an upper-case marked file in a sub-directory and left
\* an unmarked file beside the results.
C9_Witness ==
    /\ RenderReturned
    /\ Rendered(<< <<"github">>, <<"ci", "MUSTACHE", "yml">> >>)
    /\ IsFile(tree, << <<"github">>, <<"ci", "yml">> >>)
    /\ IsFile(before, << <<"index", "ts">> >>)

\* C13: when the chosen-template coordinate resolves to NotFound the run fails
\* with that error at that layer; the layer is not skipped and nothing follows.
C13_ChosenNotFoundIsFatal ==
    (\E i \in TraceIdx : trace[i] = Event("resolve", "chosen-template", FALSE)) =>
        /\ pc = "failed"
        /\ err = [kind |-> "NotFound", layer |-> NumLayers]
        /\ trace[Len(trace)] = Event("resolve", "chosen-template", FALSE)
        /\ composed = EmptyTree

\* writeStarterTemplate skipped a missing shared layer and then failed on the
\* missing chosen template.
C13_Witness ==
    /\ composer = "writeStarterTemplate"
    /\ pc = "failed"
    /\ err = [kind |-> "NotFound", layer |-> NumLayers]
    /\ \E i \in TraceIdx : trace[i] = Event("resolve", "global-shared", FALSE)
    /\ \E i \in TraceIdx : trace[i] = Event("copy", "language-shared", TRUE)

FilesOf(t) == {p \in DOMAIN t : t[p].kind = "file"}

AllResolved == \A c \in Coordinates : layers[c].found

\* The layers other than global-shared hold nothing.
OnlyGlobalContributes ==
    \A c \in Coordinates \ {"global-shared"} : DOMAIN layers[c].tree = {}

\* C19: composing into the empty target when every layer resolves gives
\* exactly the union of the layers' paths, a path of several layers holding
\* the last provider's content; when only global-shared contributes the
\* result is that layer's tree.  writePackageTemplateFiles completes only when
\* every copy succeeded; a writeStarterTemplate run is taken when none of its
\* copies was abandoned.
C19_ComposeIsUnion ==
    (ComposeDone /\ AllResolved /\ (composer = "writeStarterTemplate" => AllCopiesOk)) =>
        /\ FilesOf(composed) = UNION {FilesOf(layers[c].tree) : c \in Coordinates}
        /\ DOMAIN composed = UNION {DOMAIN layers[c].tree : c \in Coordinates}
        /\ \A p \in FilesOf(composed) :
              \E c \in Coordinates :
                 /\ p \in FilesOf(layers[c].tree)
                 /\ composed[p] = layers[c].tree[p]
                 /\ \A hi \in Coordinates :
                       Precedence(hi) > Precedence(c) => p \notin FilesOf(layers[hi].tree)
        /\ OnlyGlobalContributes => composed = layers["global-shared"].tree

\* Four layers with one file of their own each and README.md in layers 2 and
\* 4: five files, README.md with layer 4's content.
C19_Witness ==
    /\ ComposeDone /\ AllResolved
    /\ \A c \in Coordinates : FilesOf(layers[c].tree) # {}
    /\ FilesOf(layers["language-shared"].tree) \cap FilesOf(layers["chosen-template"].tree)
          = { << <<"README", "md">> >> }
    /\ Cardinality(FilesOf(composed)) = 5
    /\ composed[<< <<"README", "md">> >>].data = <<"L4">>

LicensePath == << <<"LICENSE">> >>

\* C24: writePackageTemplateFiles writes the LICENSE file, holding the MIT
\* text with year and author filled in, if and only if the package is public
\* and an author name was given; otherwise it writes no LICENSE.
C24_LicenseIffPublicAuthor ==
    (composer = "writePackageTemplateFiles" /\ pc \in {"render", "done"}) =>
        /\ Called("license") <=> (public /\ authorName # "absent")
        /\ Called("license") => tree[LicensePath] = FileNode(LicenseText)
        /\ ~Called("license") => LicensePath \notin DOMAIN tree

\* A public run with an author that ended with the license in the target.
C24_Witness ==
    /\ composer = "writePackageTemplateFiles"
    /\ pc = "done"
    /\ public /\ authorName = "name"
    /\ tree[LicensePath] = FileNode(LicenseText)

\* C26: for a private package, once compose, prune and render have
\* completed, nothing in the target has a basename of the public paths,
\* the files render produced included.
C26_PrivateHasNoPublicPath ==
    (composer = "writePackageTemplateFiles" /\ ~public /\ pc = "done") =>
        \A p \in DOMAIN tree : Basename(p) \notin templatePublicPaths

-----------------------------------------------------------------------------
(* SpecCompose: the composition run against a target that holds files *)

\* A target with files and directories of its own.
PopulatedTarget ==
    (<< <<"LICENSE">> >> :> FileNode(<<"T">>))
    @@ (<< <<"README", "md">> >> :> FileNode(<<"T">>))
    @@ (<< <<"github">> >> :> DirNode)
    @@ (<< <<"src">> >> :> DirNode)
    @@ (<< <<"src">>, <<"index", "ts">> >> :> FileNode(<<"T">>))

\* The target before the run: empty, populated by hand, or as an earlier
\* composition of one layer left it.
Targets ==
    {EmptyTree, PopulatedTarget}
    \cup {l.tree : l \in {m \in GlobalShared \cup ChosenTemplate : m.found}}

InitCompose ==
    /\ composer \in {"writePackageTemplateFiles", "writeStarterTemplate"}
    /\ public = FALSE
    /\ authorName = "absent"
    /\ layers \in [Coordinates -> UNION {LayerChoices(c) : c \in Coordinates}]
    /\ \A c \in Coordinates : layers[c] \in LayerChoices(c)
    /\ step = 1
    /\ trace = <<>>
    /\ composed = EmptyTree
    /\ err = NoErr
    /\ tree \in Targets
    /\ before = tree
    /\ fileNames = {}
    /\ fsLog = <<>>
    /\ RenderIdle
    /\ ResolverIdle
    /\ CliIdle
    /\ EscapeIdle
    /\ pc = "resolve"

NextCompose == ResolveLayer \/ CopyLayer

SpecCompose == InitCompose /\ [][NextCompose]_vars

\* C30: the composition never removes a file or directory of the target, and
\* a file of the target that no layer provides reads as before, whatever the
\* target held when the run began.
C30_ComposeOnlyAddsOrOverwrites ==
    \A p \in DOMAIN before :
        /\ p \in DOMAIN tree
        /\ tree[p].kind = before[p].kind
        /\ (IsFile(before, p) /\ \A c \in Coordinates : ~Provides(c, p)) => tree[p] = before[p]

\* A completed composition over the populated target: one of its files was
\* overwritten, one was left as it was, and files were added.
C30_Witness ==
    /\ ComposeDone
    /\ before = PopulatedTarget
    /\ tree[<< <<"README", "md">> >>] # before[<< <<"README", "md">> >>]
    /\ tree[<< <<"LICENSE">> >>] = before[<< <<"LICENSE">> >>]
    /\ \E p \in DOMAIN tree : p \notin DOMAIN before

-----------------------------------------------------------------------------
(* SpecPrune: removeFilesByBasename applied to every bounded tree *)

PruneNames == { <<"CONTRIBUTING", "md">>, <<"issue_template">>, <<"src">> }

InitPrune ==
    /\ tree = EmptyTree
    /\ before = EmptyTree
    /\ fileNames \in SUBSET PruneNames
    /\ fsLog = <<>>
    /\ pc = "build"
    /\ RenderIdle
    /\ PipeIdle
    /\ ResolverIdle
    /\ CliIdle
    /\ EscapeIdle

\* The directory content before the call: any tree within the bounds.
AddEntry ==
    /\ pc = "build"
    /\ Cardinality(DOMAIN tree) < MaxEntries
    /\ \E dir \in {<<>>} \cup {p \in DOMAIN tree : tree[p].kind = "dir"} :
       \E name \in PruneNames :
       \E node \in {DirNode, FileNode(<<"x">>)} :
          /\ Len(dir) < MaxDepth
          /\ Append(dir, name) \notin DOMAIN tree
          /\ tree' = Put(tree, Append(dir, name), node)
    /\ UNCHANGED <<before, fileNames, fsLog, pc, renderVars, pipeVars, resolverVars, cliVars, escapeVars>>

PruneCall ==
    /\ pc = "build"
    /\ LET r == removeFilesByBasename(tree, fileNames)
       IN  /\ tree' = r.tree
           /\ fsLog' = r.log
    /\ before' = tree
    /\ pc' = "pruned"
    /\ UNCHANGED <<fileNames, renderVars, pipeVars, resolverVars, cliVars, escapeVars>>

NextPrune == AddEntry \/ PruneCall

SpecPrune == InitPrune /\ [][NextPrune]_vars

\* C7: after prune(rootDir, basenames) no entry at any depth has a basename
\* in basenames, and every entry whose own basename and whose ancestors'
\* basenames are all outside basenames still exists, unchanged.
C7_PruneExact ==
    pc = "pruned" =>
        /\ \A p \in DOMAIN tree : Basename(p) \notin fileNames
        /\ \A p \in DOMAIN before :
              (\A i \in 1..Len(p) : p[i] \notin fileNames)
                  => (p \in DOMAIN tree /\ tree[p] = before[p])

\* A matching directory two levels down was removed with its content while
\* a non-matching sibling tree was traversed and kept.
C7_Witness ==
    /\ pc = "pruned"
    /\ \E p \in DOMAIN before :
          /\ Len(p) = 3
          /\ p[2] \in fileNames
          /\ p[1] \notin fileNames
          /\ p \notin DOMAIN tree
    /\ \E p \in DOMAIN before : Len(p) = 2 /\ p \in DOMAIN tree

\* The directories of the tree before the call that the basenames match and
\* no ancestor of which matches.
MatchingDirs ==
    {p \in DOMAIN before :
        /\ before[p].kind = "dir"
        /\ Basename(p) \in fileNames
        /\ \A i \in 1..(Len(p) - 1) : p[i] \notin fileNames}

\* C20: a directory whose basename matches is removed by one rm call and
\* nothing at or beneath it is listed or removed on its own, at any depth;
\* every directory with no matching name on its path is listed.
C20_MatchingDirNotVisited ==
    pc = "pruned" =>
        /\ \A p \in MatchingDirs :
              /\ Cardinality({i \in 1..Len(fsLog) : fsLog[i] = <<"rm", p>>}) = 1
              /\ \A i \in 1..Len(fsLog) :
                    /\ fsLog[i] # <<"readdir", p>>
                    /\ ~(IsPrefix(p, fsLog[i][2]) /\ fsLog[i][2] # p)
              /\ \A q \in DOMAIN tree : ~IsPrefix(p, q)
        /\ \A p \in DOMAIN before :
              (before[p].kind = "dir" /\ \A i \in 1..Len(p) : p[i] \notin fileNames)
                  => \E i \in 1..Len(fsLog) : fsLog[i] = <<"readdir", p>>

\* A matching directory three levels deep, with an entry of a matching name
\* inside it, was removed.
C20_Witness ==
    /\ pc = "pruned"
    /\ \E p \in MatchingDirs :
          /\ Len(p) = 3
          /\ \E q \in DOMAIN before : Len(q) = 4 /\ IsPrefix(p, q) /\ Basename(q) \in fileNames
          /\ p \notin DOMAIN tree

-----------------------------------------------------------------------------
(* SpecWalk: renderMustacheTemplates applied to every bounded tree *)

\* Names of files: unmarked, marked, marked in upper case, marked twice.
WalkFileNames ==
    { <<"README", "md">>, <<"README", "mustache", "md">>, <<"README", "MUSTACHE", "md">>,
      <<"README", "mustache", "mustache", "md">>, <<"ci", "MUSTACHE", "yml">> }

\* Names of directories: one to walk into, one where a destination would go.
WalkDirNames == { <<"src">>, <<"README", "md">> }

\* Texts of files: two that render, one whose tag is never closed.
WalkTexts == { <<"x">>, <<"x", "{{", "k", "}}">>, <<"{{", "x">> }

InitWalk ==
    /\ tree = EmptyTree
    /\ before = EmptyTree
    /\ fileNames = {}
    /\ fsLog = <<>>
    /\ pc = "grow"
    /\ raw = <<>>
    /\ data = "str"
    /\ rendered = [st |-> "pending", out |-> <<>>]
    /\ PipeIdle
    /\ ResolverIdle
    /\ CliIdle
    /\ EscapeIdle

\* The directory content before the call: any tree within the bounds.
AddNode ==
    /\ pc = "grow"
    /\ Cardinality(DOMAIN tree) < MaxEntries
    /\ \E dir \in {<<>>} \cup {p \in DOMAIN tree : tree[p].kind = "dir"} :
       \E entry \in {[name |-> n, node |-> FileNode(t)] : n \in WalkFileNames, t \in WalkTexts}
                    \cup {[name |-> n, node |-> DirNode] : n \in WalkDirNames} :
          /\ Len(dir) < MaxWalkDepth
          /\ Append(dir, entry.name) \notin DOMAIN tree
          /\ tree' = Put(tree, Append(dir, entry.name), entry.node)
    /\ UNCHANGED <<before, fileNames, fsLog, pc, renderVars, pipeVars, resolverVars, cliVars, escapeVars>>

\* renderMustacheTemplates(rootDir, data) returns or throws.
RenderCall ==
    /\ pc = "grow"
    /\ LET r == renderMustacheTemplates([tree |-> tree, ok |-> TRUE, log |-> <<>>], <<>>, data)
       IN  /\ tree' = r.tree
           /\ fsLog' = r.log
           /\ pc' = IF r.ok THEN "walked" ELSE "walk failed"
    /\ before' = tree
    /\ UNCHANGED <<fileNames, renderVars, pipeVars, resolverVars, cliVars, escapeVars>>

NextWalk == AddNode \/ RenderCall

SpecWalk == InitWalk /\ [][NextWalk]_vars

\* The marked regular files of a tree.
MarkedFiles(t) == {p \in DOMAIN t : IsFile(t, p) /\ HasMarkerInfix(Basename(p))}

\* The name without its first marker infix: name.mustache.ext -> name.ext.
WithoutMarker(name) ==
    LET i == CHOOSE i \in 2..(Len(name) - 1) :
                 /\ name[i] \in {"mustache", "MUSTACHE", "Mustache"}
                 /\ \A j \in 2..(i - 1) : name[j] \notin {"mustache", "MUSTACHE", "Mustache"}
    IN  [j \in 1..(Len(name) - 1) |-> IF j < i THEN name[j] ELSE name[j + 1]]

DestinationOf(p) == Append(Dirname(p), WithoutMarker(Basename(p)))

\* What a text renders to when its render succeeds: x{{k}} gives x and the
\* string value of k, a text without tags gives itself.
ExpectedRender(text) == IF text = <<"x", "{{", "k", "}}">> THEN <<"x", "v">> ELSE text

\* The text a marked file of the tree before the call renders to.
RenderedTextOf(p) == ExpectedRender(before[p].data)

\* No other marked file is written to p's destination, and p's destination
\* and p's own name are not in use by another marked file.
Alone(p) ==
    \A q \in MarkedFiles(before) \ {p} :
        /\ DestinationOf(q) # DestinationOf(p)
        /\ DestinationOf(q) # p
        /\ DestinationOf(p) # q

ListIndex(name) == CHOOSE i \in 1..Len(AllNames) : AllNames[i] = name

\* p is reached before q by the depth-first walk.
RECURSIVE Precedes(_, _)
Precedes(p, q) ==
    IF p = <<>> \/ q = <<>> THEN FALSE
    ELSE IF Head(p) = Head(q) THEN Precedes(Tail(p), Tail(q))
    ELSE ListIndex(Head(p)) < ListIndex(Head(q))

\* The tree after the files of the log, in order, were written and removed.
RECURSIVE Replay(_, _)
Replay(t, log) ==
    IF log = <<>> THEN t
    ELSE Replay(RmTree(Put(t, DestinationOf(Head(log)),
                           FileNode(ExpectedRender(t[Head(log)].data))), Head(log)),
                Tail(log))

\* C23: a render that fails stops at the failing file: the marked files
\* before it in the walk are rendered and their originals deleted, no file
\* after it is rendered, and nothing is rolled back.
C23_FailFastNoRollback ==
    pc = "walk failed" =>
        /\ \E f \in MarkedFiles(before) :
              /\ f \in DOMAIN tree
              /\ \A g \in MarkedFiles(before) : Rendered(g) <=> Precedes(g, f)
        /\ tree = Replay(before, fsLog)

\* A failed render with a rendered file before the failing one and a marked
\* file after it.
C23_Witness ==
    /\ pc = "walk failed"
    /\ Len(fsLog) = 1
    /\ IsFile(tree, DestinationOf(fsLog[1]))
    /\ fsLog[1] \notin DOMAIN tree
    /\ Cardinality(MarkedFiles(before)) = 3

\* C29: after a render that completed without error no regular file of the
\* tree has a name with the marker infix.
C29_NoMarkedFileLeft ==
    pc = "walked" => MarkedFiles(tree) = {}

-----------------------------------------------------------------------------
(* SpecRender: the text pass applied to every bounded input *)

Values == {"absent", "false", "true", "empty", "str", "zero", "nan", "num"}

Segments ==
    { <<"x">>,                       \* literal text
      <<"T0">>, <<"T1">>,            \* literal placeholder text in the file
      <<"$", "{{", "x", "}}">>,      \* ${{ x }}
      <<"$", "{{", "T1", "}}">>,     \* ${{ __GH_EXPR_1__ }}
      <<"$", "{{">>,                 \* an opening ${{
      <<"}}">>,                      \* a closing }}
      <<"{{", "k", "}}">>,           \* {{k}}
      <<"{{", "#", "k", "}}">>,      \* {{#k}}
      <<"{{", "^", "k", "}}">>,      \* {{^k}}
      <<"{{", "/", "k", "}}">> }     \* {{/k}}

SegSeqs == UNION {[1..n -> Segments] : n \in 0..MaxSegs}

\* "{{{" opens a triple mustache, which is outside the modelled syntax.
NoTriple(t) == \A i \in 1..(Len(t) - 1) : ~(t[i] = "{{" /\ t[i + 1] = "{{")

RawTexts == {t \in {Flatten(ss) : ss \in SegSeqs} : NoTriple(t)}

InitRender ==
    /\ raw \in RawTexts
    /\ data \in Values
    /\ rendered = [st |-> "pending", out |-> <<>>]
    /\ TreeIdle
    /\ CliIdle
    /\ EscapeIdle
    /\ PipeIdle
    /\ pc = "text"
    /\ ResolverIdle

RenderFile ==
    /\ rendered.st = "pending"
    /\ rendered' = LET r == RenderText(raw, data)
                   IN  [st |-> IF r.ok THEN "ok" ELSE "error", out |-> r.out]
    /\ UNCHANGED <<raw, data, treeVars, pc, pipeVars, resolverVars, cliVars, escapeVars>>

NextRender == RenderFile

SpecRender == InitRender /\ [][NextRender]_vars

\* The spans the pattern ${{ ... }} matches in a text, in order.
Spans(t) == Mask(t).ghExprs

\* The mustache tags of the text are interpolations {{k}} only.
OnlyInterpolation(t) ==
    LET p == ParseFrom(Mask(t).masked, 1, <<>>) IN
    /\ p.ok
    /\ \A n \in 1..Len(p.tokens) :
          \/ p.tokens[n].type = "text"
          \/ p.tokens[n].type = "name" /\ p.tokens[n].value = <<"k">>

\* C6: every span ${{ ... }} of the file is in the rendered output unchanged,
\* for every render context, whatever interpolation surrounds it.
C6_SpansPreserved ==
    (rendered.st = "ok" /\ OnlyInterpolation(raw)) =>
        \A n \in 1..Len(Spans(raw)) : Contains(rendered.out, Spans(raw)[n])

\* The openings ${{ of a text that no }} follows.
Unterminated(t) ==
    {i \in 1..(Len(t) - 1) : t[i] = "$" /\ t[i + 1] = "{{" /\ ClosersFrom(t, i + 2) = {}}

\* C10: a file with an opening ${{ that nothing closes renders without an
\* error and the text from the opening on is in the output as it was.
C10_UnterminatedLeftLiteral ==
    (rendered.st # "pending" /\ Unterminated(raw) # {}) =>
        /\ rendered.st = "ok"
        /\ \A i \in Unterminated(raw) : Contains(rendered.out, SubSeq(raw, i, Len(raw)))

\* Literal bodies of a block.
Bodies == {<<"x">>, <<"T0">>, <<"T1">>}

Block(sigil, body) == <<"{{", sigil, "k", "}}">> \o body \o <<"{{", "/", "k", "}}">>

\* The file is one block over key k and its body came out / did not come out.
Emitted(sigil) == \E body \in Bodies : raw = Block(sigil, body) /\ rendered.out = body
Dropped(sigil) == \E body \in Bodies : raw = Block(sigil, body) /\ rendered.out = <<>>
IsBlock(sigil) == \E body \in Bodies : raw = Block(sigil, body)

-----------------------------------------------------------------------------
(* SpecResolve: resolveTemplatesDir and listAvailableTemplates in remote     *)
(* mode, called concurrently.  The registry exists in two revisions:         *)
(* core/cli-helper.ts keeps remotePathCache, remotePathInFlight and          *)
(* remoteListCache, the template-registry of part_011 keeps none of them.   *)

\* buildGigetSpec(language, item) of the coordinates the run resolves
GigetSpecs == {"templates/typescript", "templates/typescript/package"}

Registries == {"cli-helper", "part_011"}

Caching(reg) == reg = "cli-helper"

\* `if (remotePathCache.has(spec))`
CacheHit(reg, spec) == Caching(reg) /\ spec \in DOMAIN remotePathCache

\* A resolver that never finds a download in flight.
NeverInFlight(reg, spec) == FALSE

\* `if (remotePathInFlight.has(spec))`
InFlightHit(reg, spec) == Caching(reg) /\ spec \in DOMAIN remotePathInFlight

\* What the fetch of the contents URL may answer to the existence probe:
\* 200 with a directory listing, 200 with a file object, 404, another
\* non-success status, or no answer at all (fetch throws).
ProbeResponses == {"dir", "file", "404", "status", "throws"}

\* A probe that takes every non-success status for absence.
ProbePessimistic(response) == response = "dir"

\* A probe that never reports absence.
ProbeOptimistic(response) == TRUE

\* subtreeExistsRemote: FALSE only when the subtree is definitely not there.
subtreeExistsRemote(response) ==
    CASE response = "404"    -> FALSE
      [] response = "status" -> TRUE
      [] response = "dir"    -> TRUE
      [] response = "file"   -> FALSE
      [] response = "throws" -> TRUE

\* The directory mkdtemp makes for a promise, normalized.
TmpDir(i) == <<"grimoire-templates", i>>

Pending(i) == i \in 1..Len(promises) /\ promises[i].st \in {"probe", "mkdtemp", "download"}

SetPromise(i, st, value) ==
    [promises EXCEPT ![i] = [spec |-> promises[i].spec, st |-> st, value |-> value,
                             probe |-> promises[i].probe]]

MapPut(m, k, v) == [x \in DOMAIN m \cup {k} |-> IF x = k THEN v ELSE m[x]]

MapDelete(m, k) == [x \in DOMAIN m \ {k} |-> m[x]]

InitResolve ==
    /\ registry \in Registries
    /\ remotePathCache = EmptyMap
    /\ remotePathInFlight = EmptyMap
    /\ remoteListCache = EmptyMap
    /\ promises = <<>>
    /\ calls = <<>>
    /\ netLog = {}
    /\ TreeIdle
    /\ CliIdle
    /\ EscapeIdle
    /\ RenderIdle
    /\ PipeIdle
    /\ pc = "resolver"

\* downloadRemoteTemplatesSubdir(language, item) up to its first `await`: the
\* cache, the in-flight map, or a new promise whose probe has been sent.
\* Yields the maps as the call leaves them and the promise it returns.
downloadRemoteTemplatesSubdir(spec) ==
    LET new == Len(promises) + 1 IN
    IF CacheHit(registry, spec)
    THEN [promises |-> Append(promises, [spec |-> spec, st |-> "fulfilled",
                                         value |-> remotePathCache[spec], probe |-> "none"]),
          inFlight |-> remotePathInFlight, netLog |-> netLog, promise |-> new]
    ELSE IF InFlightHit(registry, spec)
    THEN [promises |-> promises, inFlight |-> remotePathInFlight, netLog |-> netLog,
          promise |-> remotePathInFlight[spec]]
    ELSE [promises |-> Append(promises, [spec |-> spec, st |-> "probe",
                                         value |-> <<>>, probe |-> "none"]),
          inFlight |-> IF Caching(registry)
                       THEN MapPut(remotePathInFlight, spec, new)
                       ELSE remotePathInFlight,
          netLog |-> netLog \cup {<<"fetch", spec, new>>},
          promise |-> new]

Max2(a, b) == IF a > b THEN a ELSE b

\* A call of the registry: the promise it awaits (0: none), where it stands,
\* what it returned or threw, and what its listing query was answered.
Call(kind, spec, promise, st, value, listing) ==
    [kind |-> kind, spec |-> spec, promise |-> promise, st |-> st, value |-> value,
     listing |-> listing]

\* resolveTemplatesDir(language, item) up to its `await`.
CallResolve ==
    /\ Len(calls) < MaxCalls
    /\ \E spec \in GigetSpecs :
          LET d == downloadRemoteTemplatesSubdir(spec) IN
          /\ promises' = d.promises
          /\ remotePathInFlight' = d.inFlight
          /\ netLog' = d.netLog
          /\ calls' = Append(calls, Call("resolve", spec, d.promise, "awaiting", <<>>, "none"))
    /\ UNCHANGED <<registry, remotePathCache, remoteListCache, pc, pipeVars, treeVars, renderVars, cliVars, escapeVars>>

\* `await subtreeExistsRemote(language, item)` returns; on TRUE mkdtemp is called.
ProbeSettles ==
    /\ \E i \in 1..Len(promises) : \E response \in ProbeResponses :
          /\ promises[i].st = "probe"
          /\ LET exists == subtreeExistsRemote(response) IN
             /\ promises' = [promises EXCEPT ![i] =
                    [spec |-> promises[i].spec,
                     st |-> IF exists THEN "mkdtemp" ELSE "rejected",
                     value |-> IF exists THEN <<>> ELSE <<"does not exist", promises[i].spec>>,
                     probe |-> response]]
             /\ netLog' = IF exists THEN netLog \cup {<<"mkdtemp", promises[i].spec, i>>}
                          ELSE netLog
    /\ UNCHANGED <<registry, remotePathCache, remotePathInFlight, remoteListCache, calls,
                   pc, pipeVars, treeVars, renderVars, cliVars, escapeVars>>

\* `await fs.promises.mkdtemp(...)` returns and downloadTemplate is invoked.
MkdtempSettles ==
    /\ \E i \in 1..Len(promises) : \E ok \in BOOLEAN :
          /\ promises[i].st = "mkdtemp"
          /\ IF ok
             THEN /\ promises' = SetPromise(i, "download", <<>>)
                  /\ netLog' = netLog \cup {<<"downloadTemplate", promises[i].spec, i>>}
             ELSE /\ promises' = SetPromise(i, "rejected", <<"mkdtemp failed">>)
                  /\ UNCHANGED netLog
    /\ UNCHANGED <<registry, remotePathCache, remotePathInFlight, remoteListCache, calls,
                   pc, pipeVars, treeVars, renderVars, cliVars, escapeVars>>

\* downloadTemplate and normalizeDownloadedDir return, or downloadTemplate
\* throws; the `finally` block runs in both cases.
DownloadSettles ==
    /\ \E i \in 1..Len(promises) : \E ok \in BOOLEAN :
          /\ promises[i].st = "download"
          /\ promises' = IF ok
                         THEN SetPromise(i, "fulfilled", TmpDir(i))
                         ELSE SetPromise(i, "rejected",
                                         <<"failed to download", promises[i].spec, "cause">>)
          /\ remotePathCache' =
                 IF ok /\ Caching(registry)
                 THEN MapPut(remotePathCache, promises[i].spec, TmpDir(i))
                 ELSE remotePathCache
          /\ remotePathInFlight' =
                 IF Caching(registry)
                 THEN MapDelete(remotePathInFlight, promises[i].spec)
                 ELSE remotePathInFlight
    /\ UNCHANGED <<registry, remoteListCache, calls, netLog, pc, pipeVars, treeVars, renderVars, cliVars, escapeVars>>

\* The coordinate listAvailableTemplates(language, "package") lists.
ListSpecs == {"templates/typescript/package"}

\* What the fetch of the contents URL may answer to the listing query: an
\* array with template directories, an array without any, a JSON object that
\* is not an array, 404, or no answer at all (fetch throws).
ListResponses == {"entries", "onlyshared", "notarray", "404", "throws"}

\* The array a listing answers with; also what the downloaded directory holds.
Entries(response) ==
    IF response = "entries"
    THEN << [name |-> "default", type |-> "dir"],
            [name |-> "shared", type |-> "dir"],
            [name |-> "README.md", type |-> "file"] >>
    ELSE << [name |-> "shared", type |-> "dir"] >>

\* entries.filter(dir).map(name).filter(n => n.toLowerCase() !== "shared")
DirNames(entries) ==
    LET keep(e) == e.type = "dir" /\ e.name # "shared"
        kept == SelectSeq(entries, keep)
    IN  [n \in 1..Len(kept) |-> kept[n].name]

\* listChildDirs(dir) of a downloaded subtree.
listChildDirs(dir) == DirNames(Entries("entries"))

\* listRemoteChildDirsViaAPI once the fetch has settled: the names, "null"
\* (cli-helper.ts) or "throw" (part_011).
listRemoteChildDirsViaAPI(reg, response) ==
    IF response \in {"entries", "onlyshared"}
    THEN [kind |-> "names", names |-> DirNames(Entries(response))]
    ELSE [kind |-> IF Caching(reg) THEN "null" ELSE "throw", names |-> <<>>]

\* `if (apiNames && apiNames.length > 0) return apiNames;` is not taken and the
\* registry has the download-and-list fallback.
FallsBack(reg, api) == Caching(reg) /\ (api.kind = "null" \/ api.names = <<>>)

\* The rest of listAvailableTemplates once apiNames is known, up to its next
\* `await`: c is the index of the call in calls.
ListContinues(c, spec, response, api) ==
    IF FallsBack(registry, api)
    THEN LET d == downloadRemoteTemplatesSubdir(spec) IN
         /\ promises' = d.promises
         /\ remotePathInFlight' = d.inFlight
         /\ netLog' = d.netLog
         /\ calls' = [n \in 1..Max2(c, Len(calls)) |->
                         IF n = c THEN Call("list", spec, d.promise, "awaiting", <<>>, response)
                         ELSE calls[n]]
    ELSE /\ calls' = [n \in 1..Max2(c, Len(calls)) |->
                         IF n = c
                         THEN Call("list", spec, 0,
                                   IF api.kind = "throw" THEN "threw" ELSE "returned",
                                   api.names, response)
                         ELSE calls[n]]
         /\ UNCHANGED <<promises, remotePathInFlight, netLog>>

\* listAvailableTemplates(language, "package") up to its first `await`: the
\* list cache answers, or the listing query is sent.
CallList ==
    /\ Len(calls) < MaxCalls
    /\ \E spec \in ListSpecs :
          IF Caching(registry) /\ spec \in DOMAIN remoteListCache
          THEN ListContinues(Len(calls) + 1, spec, "cached",
                             [kind |-> "names", names |-> remoteListCache[spec]])
          ELSE /\ calls' = Append(calls, Call("list", spec, 0, "listing", <<>>, "none"))
               /\ netLog' = netLog \cup {<<"list", spec, Len(calls) + 1>>}
               /\ UNCHANGED <<promises, remotePathInFlight>>
    /\ UNCHANGED <<registry, remotePathCache, remoteListCache, pc, pipeVars, treeVars, renderVars, cliVars, escapeVars>>

\* The fetch of the listing query settles.
ListingSettles ==
    /\ \E c \in 1..Len(calls) : \E response \in ListResponses :
          /\ calls[c].st = "listing"
          /\ LET api == listRemoteChildDirsViaAPI(registry, response) IN
             /\ remoteListCache' =
                   IF Caching(registry) /\ api.kind = "names"
                   THEN MapPut(remoteListCache, calls[c].spec, api.names)
                   ELSE remoteListCache
             /\ ListContinues(c, calls[c].spec, response, api)
    /\ UNCHANGED <<registry, remotePathCache, pc, pipeVars, treeVars, renderVars, cliVars, escapeVars>>

\* The `await` of a caller resumes.  resolveTemplatesDir returns the directory
\* or throws what the promise was rejected with; listAvailableTemplates lists
\* the directory, and its catch block turns a rejection into [].
CallResumes ==
    /\ \E c \in 1..Len(calls) :
          /\ calls[c].st = "awaiting"
          /\ ~Pending(calls[c].promise)
          /\ LET p == promises[calls[c].promise]
                 ok == p.st = "fulfilled"
             IN  calls' = [calls EXCEPT ![c] =
                    IF calls[c].kind = "resolve"
                    THEN Call("resolve", calls[c].spec, calls[c].promise,
                              IF ok THEN "returned" ELSE "threw", p.value, "none")
                    ELSE Call("list", calls[c].spec, calls[c].promise, "returned",
                              IF ok THEN listChildDirs(p.value) ELSE <<>>,
                              calls[c].listing)]
    /\ UNCHANGED <<registry, remotePathCache, remotePathInFlight, remoteListCache, promises,
                   netLog, pc, pipeVars, treeVars, renderVars, cliVars, escapeVars>>

NextResolve ==
    \/ CallResolve
    \/ ProbeSettles
    \/ MkdtempSettles
    \/ DownloadSettles
    \/ CallList
    \/ ListingSettles
    \/ CallResumes

SpecResolve == InitResolve /\ [][NextResolve]_vars

\* C2: two resolve calls for one coordinate that are pending at the same time
\* await the same operation, and the calls that overlap a pending operation
\* cause one invocation of downloadTemplate, not one each.
C2_ConcurrentCallsShareOneDownload ==
    /\ \A c \in 1..Len(calls) : \A d \in 1..Len(calls) :
          ( /\ calls[c].spec = calls[d].spec
            /\ Pending(calls[c].promise)
            /\ Pending(calls[d].promise) )
          => calls[c].promise = calls[d].promise
    /\ \A spec \in GigetSpecs :
          Cardinality({i \in 1..Len(promises) :
                          promises[i].spec = spec /\ promises[i].st = "download"}) <= 1

\* The call appended by a step, if the step is the start of a call.
Issued == IF Len(calls') = Len(calls) + 1 THEN {Len(calls) + 1} ELSE {}

\* The resolve calls for spec that have returned a directory.
Succeeded(spec) ==
    {c \in 1..Len(calls) :
        calls[c].kind = "resolve" /\ calls[c].spec = spec /\ calls[c].st = "returned"}

\* C11: a resolve issued after a resolve of the same coordinate has returned
\* sends no probe, starts no download, and is handed the same directory.
C11_ResolvedIsMemoized ==
    [][\A n \in Issued :
          (calls'[n].kind = "resolve" /\ Succeeded(calls'[n].spec) # {}) =>
              /\ netLog' = netLog
              /\ promises'[calls'[n].promise].st = "fulfilled"
              /\ \A c \in Succeeded(calls'[n].spec) :
                    promises'[calls'[n].promise].value = calls[c].value]_vars

\* C12: an entry of the path cache is never removed and never replaced by a
\* different path.
C12_CacheEntriesImmutable ==
    [][\A spec \in DOMAIN remotePathCache :
          /\ spec \in DOMAIN remotePathCache'
          /\ remotePathCache'[spec] = remotePathCache[spec]]_vars

\* The cache holds a directory while a later download for another coordinate
\* has failed and a call has thrown.
C12_Witness ==
    /\ DOMAIN remotePathCache # {}
    /\ \E i \in 1..Len(promises) :
          /\ promises[i].st = "rejected"
          /\ \E j \in 1..(i - 1) : promises[j].st = "fulfilled"
    /\ \E c \in 1..Len(calls) : calls[c].st = "threw"

\* What a fetch error for a coordinate reads: the coordinate and the cause.
NamesCoordinate(value, spec) == Len(value) >= 2 /\ value[2] = spec

\* C14: a transport failure of the probe or of the download makes the resolve
\* fail with an error that names the coordinate and carries the cause.
C14_TransportFailureIsFetchError ==
    \A i \in 1..Len(promises) :
        /\ promises[i].probe = "throws" =>
              /\ promises[i].st = "rejected"
              /\ NamesCoordinate(promises[i].value, promises[i].spec)
        /\ (promises[i].st = "rejected" /\ <<"downloadTemplate", promises[i].spec, i>> \in netLog) =>
              /\ NamesCoordinate(promises[i].value, promises[i].spec)
              /\ promises[i].value[Len(promises[i].value)] = "cause"

\* C15: a probe answered 404 rejects the resolve as not found; no temporary
\* directory is made and downloadTemplate is not invoked for it.
C15_NotFoundWithoutDownload ==
    \A i \in 1..Len(promises) :
        promises[i].probe = "404" =>
            /\ promises[i].st = "rejected"
            /\ promises[i].value = <<"does not exist", promises[i].spec>>
            /\ <<"mkdtemp", promises[i].spec, i>> \notin netLog
            /\ <<"downloadTemplate", promises[i].spec, i>> \notin netLog
            /\ \A c \in 1..Len(calls) :
                  (calls[c].kind = "resolve" /\ calls[c].promise = i) => calls[c].st # "returned"

\* A resolve threw after its probe was answered 404.
C15_Witness ==
    \E c \in 1..Len(calls) :
        /\ calls[c].kind = "resolve"
        /\ calls[c].st = "threw"
        /\ promises[calls[c].promise].probe = "404"

\* C16: a probe answered with another non-success status does not fail the
\* resolve: the download step is entered and the resolve ends as it ends.
C16_OtherStatusDefersToDownload ==
    \A i \in 1..Len(promises) :
        promises[i].probe = "status" =>
            /\ <<"mkdtemp", promises[i].spec, i>> \in netLog
            /\ promises[i].st = "rejected" =>
                  promises[i].value[1] \in {"mkdtemp failed", "failed to download"}
            /\ promises[i].st = "fulfilled" =>
                  /\ <<"downloadTemplate", promises[i].spec, i>> \in netLog
                  /\ promises[i].value = TmpDir(i)
            /\ \A c \in 1..Len(calls) :
                  (calls[c].kind = "resolve" /\ calls[c].promise = i /\ calls[c].st # "awaiting") =>
                      (calls[c].st = "returned" <=> promises[i].st = "fulfilled")

\* After a probe answered with a non-success status one resolve returned the
\* downloaded directory and another threw the download's failure.
C16_Witness ==
    /\ \E c \in 1..Len(calls) :
          /\ calls[c].kind = "resolve" /\ calls[c].st = "returned"
          /\ promises[calls[c].promise].probe = "status"
    /\ \E c \in 1..Len(calls) :
          /\ calls[c].kind = "resolve" /\ calls[c].st = "threw"
          /\ promises[calls[c].promise].probe = "status"
          /\ promises[calls[c].promise].value[1] = "failed to download"

\* C17: a list whose listing query failed or gave no names goes on to resolve
\* the coordinate and returns the directories of the resolved directory,
\* without "shared".
C17_ListFallsBackToResolve ==
    \A c \in 1..Len(calls) :
        ( /\ calls[c].kind = "list"
          /\ calls[c].listing \in {"404", "throws", "notarray", "onlyshared"} )
        => /\ calls[c].st # "threw"
           /\ calls[c].promise # 0
           /\ (calls[c].st = "returned" /\ promises[calls[c].promise].st = "fulfilled") =>
                 calls[c].value = <<"default">>

\* C18: a list whose listing query was answered 404 returns no names and
\* throws nothing.
C18_ListNotFoundIsEmpty ==
    \A c \in 1..Len(calls) :
        (calls[c].kind = "list" /\ calls[c].listing = "404") =>
            /\ calls[c].st # "threw"
            /\ calls[c].st = "returned" => calls[c].value = <<>>

\* C27: the in-flight map holds a coordinate only while the resolve operation
\* for it is pending, so that a settled operation, failed or not, has left the
\* map; and the path cache holds only directories of fulfilled operations.
C27_InFlightOnlyWhilePending ==
    /\ \A spec \in DOMAIN remotePathInFlight : Pending(remotePathInFlight[spec])
    /\ \A spec \in DOMAIN remotePathCache :
          \E i \in 1..Len(promises) :
             promises[i].st = "fulfilled" /\ promises[i].value = remotePathCache[spec]

-----------------------------------------------------------------------------
(* SpecRun: the command-line entry point                                   *)

ArgWords == {"", "summon", "package"}

\* process.argv: the node binary, the script, then the words typed.
ArgVectors == {<<"node", "grimoire">> \o w : w \in UNION {[1..n -> ArgWords] : n \in 0..MaxArgs}}

\* A filter that keeps the empty words.
KeepAll(ws) == ws

\* .filter(Boolean)
FilterBoolean(ws) ==
    LET nonEmpty(w) == w # "" IN SelectSeq(ws, nonEmpty)

\* const args = argv.slice(2).filter(Boolean)
Args(av) == FilterBoolean(SubSeq(av, 3, Len(av)))

\* [argv[0] || "", argv[1] || "", ...args, "--help"]
FallbackArgv(av) == <<av[1], av[2]>> \o Args(av) \o <<"--help">>

InitRun ==
    /\ argv \in ArgVectors
    /\ cliPc = "start"
    /\ parseLog = <<>>
    /\ helpLog = 0
    /\ EscapeIdle
    /\ TreeIdle
    /\ RenderIdle
    /\ PipeIdle
    /\ ResolverIdle
    /\ pc = "run"

\* `if (args.length === 0) { app.outputHelp(); return; }`
RunStart ==
    /\ cliPc = "start"
    /\ IF Args(argv) = <<>>
       THEN helpLog' = helpLog + 1 /\ cliPc' = "returned"
       ELSE helpLog' = helpLog /\ cliPc' = "parse"
    /\ UNCHANGED <<argv, parseLog, escapeVars, treeVars, renderVars, pipeVars, pc, resolverVars>>

\* `try { app.parse(argv); }`: the parse returns or throws.
Parse ==
    /\ cliPc = "parse"
    /\ \E threw \in BOOLEAN :
          /\ parseLog' = Append(parseLog, [argv |-> argv, threw |-> threw])
          /\ cliPc' = IF threw THEN "fallback" ELSE "returned"
    /\ UNCHANGED <<argv, helpLog, escapeVars, treeVars, renderVars, pipeVars, pc, resolverVars>>

\* `catch { try { app.parse(fallbackArgv); } catch { app.outputHelp(); } }`
ParseFallback ==
    /\ cliPc = "fallback"
    /\ \E threw \in BOOLEAN :
          /\ parseLog' = Append(parseLog, [argv |-> FallbackArgv(argv), threw |-> threw])
          /\ helpLog' = IF threw THEN helpLog + 1 ELSE helpLog
    /\ cliPc' = "returned"
    /\ UNCHANGED <<argv, escapeVars, treeVars, renderVars, pipeVars, pc, resolverVars>>

NextRun == RunStart \/ Parse \/ ParseFallback

SpecRun == InitRun /\ [][NextRun]_vars

\* The words after the script that are not empty.
NonEmptyWords == {i \in 3..Len(argv) : argv[i] # ""}

RECURSIVE WordsFrom(_)
WordsFrom(i) ==
    IF i > Len(argv) THEN <<>>
    ELSE (IF argv[i] # "" THEN <<argv[i]>> ELSE <<>>) \o WordsFrom(i + 1)

\* C25: with no non-empty argument the help is output and parse is never
\* called; otherwise argv is parsed once, on a throw the non-empty arguments
\* with --help appended are parsed once, and the help is output only when
\* that second parse throws as well.
C25_ParseThenHelpFallback ==
    cliPc = "returned" =>
        IF NonEmptyWords = {}
        THEN helpLog = 1 /\ parseLog = <<>>
        ELSE /\ Len(parseLog) \in {1, 2}
             /\ parseLog[1].argv = argv
             /\ Len(parseLog) = 2 <=> parseLog[1].threw
             /\ Len(parseLog) = 2 =>
                    parseLog[2].argv = <<"node", "grimoire">> \o WordsFrom(3) \o <<"--help">>
             /\ helpLog = IF Len(parseLog) = 2 /\ parseLog[2].threw THEN 1 ELSE 0

\* Both parses threw for a vector holding an empty word, and the help was shown.
C25_Witness ==
    /\ cliPc = "returned"
    /\ Len(parseLog) = 2 /\ parseLog[2].threw
    /\ helpLog = 1
    /\ \E i \in 3..Len(argv) : argv[i] = ""

-----------------------------------------------------------------------------
(* SpecEscape: renderMustacheTemplates calls that overlap in time          *)

\* The function `(s: string) => s` that the call makes for its k-th file.
Identity(c, k) == <<"identity", c, k>>

RenderIds == 1..MaxRenders

InitEscape ==
    /\ mustacheEscape = "original"
    /\ renderCalls \in [RenderIds -> [pc : {"idle"}, left : 1..MaxMarked, previousEscape : {"none"}]]
    /\ CliIdle
    /\ TreeIdle
    /\ RenderIdle
    /\ PipeIdle
    /\ ResolverIdle
    /\ pc = "escape"

SetCall(c, cpc, left, prev) ==
    [renderCalls EXCEPT ![c] = [pc |-> cpc, left |-> left, previousEscape |-> prev]]

\* The call is made: it awaits readdir and then readFile of a marked file.
RenderBegins(c) ==
    /\ renderCalls[c].pc = "idle"
    /\ renderCalls' = SetCall(c, "read", renderCalls[c].left, "none")
    /\ UNCHANGED <<mustacheEscape, escapeFrame>>

\* readFile settles.  On success the call runs, without yielding, from
\* `const previousEscape = mustache.escape` to `await writeFile(...)`; a throw
\* of mustache.render passes through the finally block.
ReadSettles(c) ==
    /\ renderCalls[c].pc = "read"
    /\ \E outcome \in {"ok", "read fails", "render throws"} :
          CASE outcome = "ok" ->
                 /\ mustacheEscape' = Identity(c, renderCalls[c].left)
                 /\ renderCalls' = SetCall(c, "write", renderCalls[c].left, mustacheEscape)
            [] outcome = "read fails" ->
                 /\ mustacheEscape' = mustacheEscape
                 /\ renderCalls' = SetCall(c, "threw", renderCalls[c].left, "none")
            [] outcome = "render throws" ->
                 /\ mustacheEscape' = mustacheEscape
                 /\ renderCalls' = SetCall(c, "threw", renderCalls[c].left, mustacheEscape)
    /\ UNCHANGED escapeFrame

\* finally { mustache.escape = previousEscape; }
Finally(current, previousEscape) == previousEscape

\* writeFile settles: on to `await rm(...)`, or out through the finally block.
WriteSettles(c) ==
    /\ renderCalls[c].pc = "write"
    /\ \E ok \in BOOLEAN :
          IF ok
          THEN /\ renderCalls' = SetCall(c, "rm", renderCalls[c].left, renderCalls[c].previousEscape)
               /\ UNCHANGED mustacheEscape
          ELSE /\ renderCalls' = SetCall(c, "threw", renderCalls[c].left, renderCalls[c].previousEscape)
               /\ mustacheEscape' = Finally(mustacheEscape, renderCalls[c].previousEscape)
    /\ UNCHANGED escapeFrame

\* rm settles: the finally block runs, then the next marked file or the return.
RmSettles(c) ==
    /\ renderCalls[c].pc = "rm"
    /\ mustacheEscape' = Finally(mustacheEscape, renderCalls[c].previousEscape)
    /\ \E ok \in BOOLEAN :
          renderCalls' = SetCall(c,
                                 IF ~ok THEN "threw"
                                 ELSE IF renderCalls[c].left = 1 THEN "returned" ELSE "read",
                                 IF ok THEN renderCalls[c].left - 1 ELSE renderCalls[c].left,
                                 renderCalls[c].previousEscape)
    /\ UNCHANGED escapeFrame

NextEscape ==
    \E c \in RenderIds : RenderBegins(c) \/ ReadSettles(c) \/ WriteSettles(c) \/ RmSettles(c)

SpecEscape == InitEscape /\ [][NextEscape]_vars

AllRendersEnded == \A c \in RenderIds : renderCalls[c].pc \in {"returned", "threw"}

\* C28: once every renderMustacheTemplates call has returned or thrown,
\* overlapping calls included, mustache.escape is the function that was
\* installed before the first call began.
C28_EscapeRestored == AllRendersEnded => mustacheEscape = "original"


=============================================================================
